---- MODULE Spec2Model ----
(***************************************************************************)
(* Beam reinforcement layout prototype of BIMPlus                          *)
(* (BIMPlus.tab/Test1.panel/TestPush.pushbutton/script.py) together with   *)
(* the _Starty helpers it calls.                                           *)
(*                                                                         *)
(* Specifications.  Spec: one run of the reinforcement script.             *)
(* ExampleSpec: the same script on members given in millimetres.           *)
(* HelperSpec: the visualization helpers of _Starty called in any order.   *)
(* WindowSpec: the RebarToolWindow of Rebar.pushbutton/script.py.          *)
(*                                                                         *)
(* Numbers.  The script computes with Python floats.  The model computes   *)
(* with exact rationals <<n, d>> (d > 0, lowest terms), so every formula   *)
(* of the script is evaluated as written; floating-point rounding is the   *)
(* one thing abstracted.  Lengths are in Revit internal units (feet), as   *)
(* in the script; millimetre inputs go through to_internal_mm.             *)
(***************************************************************************)
EXTENDS Integers, Sequences, FiniteSets, TLC

(***************************************************************************)
(* Exact rational arithmetic standing for Python float arithmetic.         *)
(***************************************************************************)
IAbs(n) == IF n < 0 THEN -n ELSE n

RECURSIVE Gcd(_, _)
Gcd(a, b) == IF b = 0 THEN a ELSE Gcd(b, a % b)

Lcm(a, b) == (a \div Gcd(a, b)) * b

\* the rational n/d in lowest terms with a positive denominator (d # 0)
R(n, d) ==
    LET s == IF d < 0 THEN -1 ELSE 1
        g == Gcd(IAbs(n), IAbs(d))
    IN  <<(s * n) \div g, (s * d) \div g>>

RInt(n) == <<n, 1>>

RZero == <<0, 1>>

RNeg(a) == <<-a[1], a[2]>>

RAdd(a, b) ==
    LET l == Lcm(a[2], b[2])
    IN  R(a[1] * (l \div a[2]) + b[1] * (l \div b[2]), l)

RSub(a, b) == RAdd(a, RNeg(b))

RMul(a, b) ==
    LET g1 == Gcd(IAbs(a[1]), b[2])
        g2 == Gcd(IAbs(b[1]), a[2])
    IN  R((a[1] \div g1) * (b[1] \div g2), (a[2] \div g2) * (b[2] \div g1))

\* a / b for b # 0 (the callers raise ZeroDivisionError before dividing by 0)
RDiv(a, b) == RMul(a, R(b[2], b[1]))

RSign(a) == IF a[1] < 0 THEN -1 ELSE IF a[1] = 0 THEN 0 ELSE 1

\* a < b, by floors and then by the reciprocals of the fractional parts
\* (no product of denominators is formed)
RECURSIVE RLt(_, _)
RLt(a, b) ==
    LET fa == a[1] \div a[2]
        fb == b[1] \div b[2]
        ra == a[1] % a[2]
        rb == b[1] % b[2]
    IN  IF fa # fb THEN fa < fb
        ELSE IF ra = 0 THEN rb > 0
        ELSE IF rb = 0 THEN FALSE
        ELSE RLt(<<b[2], rb>>, <<a[2], ra>>)

RLe(a, b) == ~RLt(b, a)

RMax(a, b) == IF RLt(a, b) THEN b ELSE a

RMin(a, b) == IF RLt(b, a) THEN b ELSE a

RAbs(a) == <<IAbs(a[1]), a[2]>>

\* int(math.floor(a))
RFloor(a) == a[1] \div a[2]

\* the largest r in lo..hi with r * r <= n, by bisection
RECURSIVE ISqrtIn(_, _, _)
ISqrtIn(n, lo, hi) ==
    IF lo = hi THEN lo
    ELSE LET mid == (lo + hi + 1) \div 2
         IN  IF mid <= n \div mid THEN ISqrtIn(n, mid, hi)
             ELSE ISqrtIn(n, lo, mid - 1)

\* the non-negative rational root of a non-negative rational square
ISqrt(n) == CHOOSE r \in {ISqrtIn(n, 0, n)} : r * r = n

RSqrt(a) == <<ISqrt(a[1]), ISqrt(a[2])>>

(***************************************************************************)
(* Autodesk.Revit.DB.XYZ: points and vectors, triples of rationals.        *)
(***************************************************************************)
XYZ(x, y, z) == <<x, y, z>>

XYZZero == XYZ(RZero, RZero, RZero)

BasisZ == XYZ(RZero, RZero, RInt(1))

VAdd(p, q) == XYZ(RAdd(p[1], q[1]), RAdd(p[2], q[2]), RAdd(p[3], q[3]))

VSub(p, q) == XYZ(RSub(p[1], q[1]), RSub(p[2], q[2]), RSub(p[3], q[3]))

\* XYZ.Multiply(value)
Multiply(v, k) == XYZ(RMul(v[1], k), RMul(v[2], k), RMul(v[3], k))

DotProduct(p, q) ==
    RAdd(RAdd(RMul(p[1], q[1]), RMul(p[2], q[2])), RMul(p[3], q[3]))

CrossProduct(p, q) ==
    XYZ(RSub(RMul(p[2], q[3]), RMul(p[3], q[2])),
        RSub(RMul(p[3], q[1]), RMul(p[1], q[3])),
        RSub(RMul(p[1], q[2]), RMul(p[2], q[1])))

GetLength(v) == RSqrt(DotProduct(v, v))

\* XYZ.Normalize(): the unit vector; a zero-length vector is returned as the
\* zero vector (the host raises nothing)
Normalize(v) ==
    IF v = XYZZero THEN XYZZero
    ELSE Multiply(v, RDiv(RInt(1), GetLength(v)))

(***************************************************************************)
(* Bounds of the model.                                                    *)
(***************************************************************************)
\* most target elements in one run
MaxTargets == 2

\* most shapes the host refuses in one run
MaxRefusals == 1

(***************************************************************************)
(* Small helper functions (script.py 27-39).                               *)
(***************************************************************************)
\* UnitUtils.ConvertToInternalUnits(mm_val, UnitTypeId.Millimeters):
\* 1 ft = 304.8 mm, so mm_val * 5 / 1524
to_internal_mm(mm_val) == RMul(mm_val, R(5, 1524))

\* What forms.ask_for_string hands back: the text of an integer literal
\* ("int"), of a decimal literal with a fraction ("dec"), any other text
\* ("text"), or None when the dialog is dismissed ("none").
Raw(kind, n, d) == [kind |-> kind, val |-> R(n, d)]

\* int(val), default on any exception: only an integer literal converts
safe_int(val) == IF val.kind = "int" THEN val.val[1] ELSE 0

\* float(val), default on any exception
safe_float(val) == IF val.kind \in {"int", "dec"} THEN val.val ELSE RZero

(***************************************************************************)
(* _Starty.get_line_local_axes (lib/_Starty.py 50-77).                     *)
(***************************************************************************)
get_line_local_axes(start_pt, end_pt) ==
    LET local_x == Normalize(VSub(end_pt, start_pt))
        global_z == BasisZ
        local_y == Normalize(CrossProduct(global_z, local_x))
        local_z == Normalize(CrossProduct(local_x, local_y))
    IN  <<local_x, local_y, local_z>>

(***************************************************************************)
(* Host geometry: Line.CreateBound and Curve.Evaluate.                     *)
(***************************************************************************)
\* Line.CreateBound(p, q): the bound line from p to q
CreateBound(p, q) == <<p, q>>

\* Line.CreateBound raises when the two points coincide
CreateBoundRaises(p, q) == p = q

\* curve.Evaluate(t, True) on a straight location curve
Evaluate(start_pt, end_pt, t) == VAdd(start_pt, Multiply(VSub(end_pt, start_pt), t))

\* a normalized parameter outside [0, 1]
OutOfRange(t) == RLt(t, RZero) \/ RLt(RInt(1), t)

(***************************************************************************)
(* Per-beam calculation (script.py 116-201).                               *)
(***************************************************************************)
\* compute_offsets dividing the width by the count instead of the gaps
compute_offsets_by_count(count, usable_width) ==
    IF count <= 0 THEN <<>>
    ELSE IF count = 1 THEN <<RZero>>
    ELSE LET step == RDiv(usable_width, RInt(count))
             start == RDiv(RNeg(usable_width), RInt(2))
         IN  [k \in 1..count |-> RAdd(start, RMul(RInt(k - 1), step))]

\* compute_offsets starting at -usable_width instead of half of it
compute_offsets_full_width(count, usable_width) ==
    IF count <= 0 THEN <<>>
    ELSE IF count = 1 THEN <<RZero>>
    ELSE LET step == RDiv(usable_width, RInt(count - 1))
             start == RNeg(usable_width)
         IN  [k \in 1..count |-> RAdd(start, RMul(RInt(k - 1), step))]

\* script.py 138-145
compute_offsets(count, usable_width) ==
    IF count <= 0 THEN <<>>
    ELSE IF count = 1 THEN <<RZero>>
    ELSE LET step == RDiv(usable_width, RInt(count - 1))
             start == RDiv(RNeg(usable_width), RInt(2))
         IN  [k \in 1..count |-> RAdd(start, RMul(RInt(k - 1), step))]

\* BarLines shifting the end point vertically only
BarLines_end_not_shifted(start_pt, end_pt, offsets, local_y, local_z, z_offset) ==
    [k \in 1..Len(offsets) |->
        LET offset_vec == VAdd(Multiply(local_y, offsets[k]), Multiply(local_z, z_offset))
            sp == VAdd(start_pt, offset_vec)
            ep == VAdd(end_pt, Multiply(local_z, z_offset))
        IN  CreateBound(sp, ep)]

\* script.py 152-156 and 158-162: one centerline per offset
BarLines(start_pt, end_pt, offsets, local_y, local_z, z_offset) ==
    [k \in 1..Len(offsets) |->
        LET offset_vec == VAdd(Multiply(local_y, offsets[k]), Multiply(local_z, z_offset))
            sp == VAdd(start_pt, offset_vec)
            ep == VAdd(end_pt, offset_vec)
        IN  CreateBound(sp, ep)]

\* script.py 116-121: section extents from the bounding box
SectionOf(host) ==
    LET size_x == RAbs(RSub(host.bbox.Max[1], host.bbox.Min[1]))
        size_y == RAbs(RSub(host.bbox.Max[2], host.bbox.Min[2]))
        size_z == RAbs(RSub(host.bbox.Max[3], host.bbox.Min[3]))
    IN  [beam_width |-> RMax(size_x, size_y),
         beam_depth |-> IF RLt(R(1, 1000000), size_z) THEN size_z
                        ELSE RMax(size_x, size_y)]

\* script.py 107-109, 123-162: frame, offsets and bar centerlines of one host
BarStage(host, P) ==
    LET start_pt == host.start
        end_pt == host.end
        sec == SectionOf(host)
        axes == get_line_local_axes(start_pt, end_pt)
        cover_ft == to_internal_mm(P.cover_mm)
        long_rad == RMul(to_internal_mm(P.long_dia_mm), R(1, 2))
        half_depth == RDiv(sec.beam_depth, RInt(2))
        z_offset_top == RSub(RSub(half_depth, cover_ft), long_rad)
        z_offset_bot == RNeg(RSub(RSub(half_depth, cover_ft), long_rad))
        usable_width == RSub(RSub(sec.beam_width, RMul(RInt(2), cover_ft)),
                             RMul(RInt(2), long_rad))
        top_offsets == compute_offsets(P.top_count, usable_width)
        bot_offsets == compute_offsets(P.bottom_count, usable_width)
    IN  [hostId |-> host.Id,
         beam_width |-> sec.beam_width,
         beam_depth |-> sec.beam_depth,
         local_y |-> axes[2],
         local_z |-> axes[3],
         z_offset_top |-> z_offset_top,
         z_offset_bot |-> z_offset_bot,
         usable_width |-> usable_width,
         top_offsets |-> top_offsets,
         bot_offsets |-> bot_offsets,
         bar_curves |->
             BarLines(start_pt, end_pt, top_offsets, axes[2], axes[3], z_offset_top)
             \o BarLines(start_pt, end_pt, bot_offsets, axes[2], axes[3], z_offset_bot)]

\* Line.CreateBound(sp, ep) of a bar raises when the span has no length
BarStageRaises(host, P) ==
    /\ (P.top_count > 0 \/ P.bottom_count > 0)
    /\ CreateBoundRaises(host.start, host.end)

\* script.py 165-168
StartCover(P) ==
    RAdd(RAdd(to_internal_mm(P.cover_mm),
              RMul(to_internal_mm(P.stirrup_dia_mm), R(1, 2))),
         R(5, 100))

BeamLength(host) == GetLength(VSub(host.end, host.start))

UsableLength(host, P) ==
    RMax(RZero, RSub(RSub(BeamLength(host), StartCover(P)), StartCover(P)))

\* StirrupCount with one position more than the spacing leaves room for
StirrupCount_one_more(usable_length, spacing_ft) ==
    RFloor(RDiv(usable_length, spacing_ft)) + 2

\* script.py 173: int(math.floor(usable_length / spacing_ft)) + 1
StirrupCount(usable_length, spacing_ft) ==
    RFloor(RDiv(usable_length, spacing_ft)) + 1

\* dist_along without the start cover
DistAlong_from_zero(i, start_cover, spacing_ft, usable_length) ==
    RMin(RMul(RInt(i), spacing_ft), usable_length)

\* script.py 177: dist_along of stirrup i (0-indexed)
DistAlong(i, start_cover, spacing_ft, usable_length) ==
    RAdd(start_cover, RMin(RMul(RInt(i), spacing_ft), usable_length))

\* script.py 164-180.  exc is the exception that ends the stage, "none" when
\* it runs to its end.  strict: the host's Curve.Evaluate raises on a
\* normalized parameter outside [0, 1] (otherwise it extrapolates the line).
LocationStage(host, P, strict) ==
    LET start_cover == StartCover(P)
        beam_length == BeamLength(host)
        usable_length == UsableLength(host, P)
        spacing_ft == to_internal_mm(P.stirrup_spacing_mm)
        count == StirrupCount(usable_length, spacing_ft)
        n == IF count > 0 THEN count ELSE 0
        T(i) == RDiv(DistAlong(i, start_cover, spacing_ft, usable_length), beam_length)
        bad == {i \in 0..(n - 1) : strict /\ OutOfRange(T(i))}
        done == IF bad = {} THEN n
                ELSE CHOOSE i \in bad : \A j \in bad : i <= j
        base == [start_cover |-> start_cover,
                 beam_length |-> beam_length,
                 usable_length |-> usable_length]
    IN  IF RLe(usable_length, RZero)
        THEN [exc |-> "none", stirrup_locations |-> <<>>] @@ base
        ELSE IF spacing_ft = RZero
        THEN [exc |-> "ZeroDivisionError"] @@ base
        ELSE IF count > 0 /\ beam_length = RZero
        THEN [exc |-> "ZeroDivisionError", count |-> count, stirrup_locations |-> <<>>] @@ base
        ELSE [exc |-> IF bad = {} THEN "none" ELSE "ArgumentException",
              count |-> count,
              stirrup_locations |->
                  [k \in 1..done |-> Evaluate(host.start, host.end, T(k - 1))]] @@ base

\* StirrupLoop whose last edge runs back to the second corner
StirrupLoop_open(locpt, local_y, local_z, stirrup_half_w, stirrup_half_d) ==
    LET p1 == VAdd(VAdd(locpt, Multiply(local_y, RNeg(stirrup_half_w))),
                   Multiply(local_z, RNeg(stirrup_half_d)))
        p2 == VAdd(VAdd(locpt, Multiply(local_y, stirrup_half_w)),
                   Multiply(local_z, RNeg(stirrup_half_d)))
        p3 == VAdd(VAdd(locpt, Multiply(local_y, stirrup_half_w)),
                   Multiply(local_z, stirrup_half_d))
        p4 == VAdd(VAdd(locpt, Multiply(local_y, RNeg(stirrup_half_w))),
                   Multiply(local_z, stirrup_half_d))
    IN  <<CreateBound(p1, p2), CreateBound(p2, p3), CreateBound(p3, p4),
          CreateBound(p4, p2)>>

\* script.py 189-201: the four edges of the stirrup at locpt
StirrupLoop(locpt, local_y, local_z, stirrup_half_w, stirrup_half_d) ==
    LET p1 == VAdd(VAdd(locpt, Multiply(local_y, RNeg(stirrup_half_w))),
                   Multiply(local_z, RNeg(stirrup_half_d)))
        p2 == VAdd(VAdd(locpt, Multiply(local_y, stirrup_half_w)),
                   Multiply(local_z, RNeg(stirrup_half_d)))
        p3 == VAdd(VAdd(locpt, Multiply(local_y, stirrup_half_w)),
                   Multiply(local_z, stirrup_half_d))
        p4 == VAdd(VAdd(locpt, Multiply(local_y, RNeg(stirrup_half_w))),
                   Multiply(local_z, stirrup_half_d))
        l1 == CreateBound(p1, p2)
        l2 == CreateBound(p2, p3)
        l3 == CreateBound(p3, p4)
        l4 == CreateBound(p4, p1)
    IN  <<l1, l2, l3, l4>>

\* a Line.CreateBound of the loop raises
StirrupLoopRaises(loop) == \E k \in 1..4 : CreateBoundRaises(loop[k][1], loop[k][2])

RECURSIVE Flatten(_)
Flatten(loops) ==
    IF loops = <<>> THEN <<>> ELSE Head(loops) \o Flatten(Tail(loops))

\* script.py 184-185
StirrupHalfW(host, P) ==
    RSub(RSub(RDiv(SectionOf(host).beam_width, RInt(2)), to_internal_mm(P.cover_mm)),
         RMul(to_internal_mm(P.stirrup_dia_mm), R(1, 2)))

StirrupHalfD(host, P) ==
    RSub(RSub(RDiv(SectionOf(host).beam_depth, RInt(2)), to_internal_mm(P.cover_mm)),
         RMul(to_internal_mm(P.stirrup_dia_mm), R(1, 2)))

\* script.py 186: the section leaves room for a stirrup
SectionSufficient(stirrup_half_w, stirrup_half_d) ==
    /\ RLt(R(1, 1000000), stirrup_half_w)
    /\ RLt(R(1, 1000000), stirrup_half_d)

\* script.py 183-201
StirrupStage(host, P, stirrup_locations, local_y, local_z) ==
    LET stirrup_half_w == StirrupHalfW(host, P)
        stirrup_half_d == StirrupHalfD(host, P)
        loops == [k \in 1..Len(stirrup_locations) |->
                     StirrupLoop(stirrup_locations[k], local_y, local_z,
                                 stirrup_half_w, stirrup_half_d)]
        base == [stirrup_half_w |-> stirrup_half_w, stirrup_half_d |-> stirrup_half_d]
    IN  IF ~SectionSufficient(stirrup_half_w, stirrup_half_d)
        THEN [exc |-> "none", stirrup_curves |-> <<>>] @@ base
        ELSE IF \E k \in 1..Len(loops) : StirrupLoopRaises(loops[k])
        THEN [exc |-> "ArgumentsInconsistentException", stirrup_curves |-> <<>>] @@ base
        ELSE [exc |-> "none", stirrup_curves |-> Flatten(loops)] @@ base

(***************************************************************************)
(* What the host hands the script: the answers typed into the forms and    *)
(* the elements of the selection.                                          *)
(***************************************************************************)
TopAnswers == {Raw("int", 3, 1), Raw("int", -1, 1), Raw("text", 0, 1)}

BottomAnswers == {Raw("int", 1, 1), Raw("dec", 5, 2)}

CoverAnswers == {Raw("int", 30, 1), Raw("int", 400, 1), Raw("int", -30, 1)}

LongDiaAnswers == {Raw("int", 16, 1)}

StirrupDiaAnswers == {Raw("int", 8, 1)}

SpacingAnswers == {Raw("int", 1000, 1), Raw("int", 0, 1)}

Pt(x, y, z) == XYZ(RInt(x), RInt(y), RInt(z))

NoBox == [Min |-> XYZZero, Max |-> XYZZero]

\* a sloped beam, a vertical member, an element with a LocationPoint, an
\* element without a bounding box, a level line with a flat bounding box
Hosts ==
    { [Id |-> 102, hasCurve |-> TRUE, start |-> Pt(0, 0, 0), end |-> Pt(4, 0, 3),
       hasBBox |-> TRUE,
       bbox |-> [Min |-> XYZ(RInt(-1), R(-1, 2), RInt(-1)),
                 Max |-> XYZ(RInt(5), R(1, 2), RInt(4))]],
      [Id |-> 103, hasCurve |-> TRUE, start |-> Pt(0, 0, 0), end |-> Pt(0, 0, 8),
       hasBBox |-> TRUE,
       bbox |-> [Min |-> XYZ(R(-1, 2), R(-1, 2), RInt(0)),
                 Max |-> XYZ(R(1, 2), R(1, 2), RInt(8))]],
      [Id |-> 104, hasCurve |-> FALSE, start |-> XYZZero, end |-> XYZZero,
       hasBBox |-> TRUE,
       bbox |-> [Min |-> Pt(0, 0, 0), Max |-> Pt(1, 1, 1)]],
      [Id |-> 105, hasCurve |-> TRUE, start |-> Pt(0, 0, 0), end |-> Pt(0, 6, 0),
       hasBBox |-> FALSE, bbox |-> NoBox],
      [Id |-> 106, hasCurve |-> TRUE, start |-> Pt(0, 0, 0), end |-> Pt(3, 4, 0),
       hasBBox |-> TRUE,
       bbox |-> [Min |-> Pt(0, 0, 0), Max |-> Pt(3, 4, 0)]] }

\* the selections: up to MaxTargets distinct elements, in selection order
Selections ==
    UNION {{q \in [1..n -> Hosts] : \A i, j \in 1..n : i # j => q[i].Id # q[j].Id}
           : n \in 0..MaxTargets}

(***************************************************************************)
(* State of one run of the script.                                         *)
(***************************************************************************)
VARIABLES
    answers,            \* what the user typed into the six forms, and the flag
    targets,            \* script.py 62: the resolved target elements
    pc,                 \* where the script is
    P,                  \* script.py 52-58: the parsed parameters
    idx,                \* position of the per-beam loop in targets
    loc,                \* module-level names the per-beam loop assigns
    all_debug_shapes,   \* script.py 100
    printed,            \* what print() wrote: format strings and their argument
    exc,                \* the unhandled exception that ended the script
    vis,                \* position of the visualization loop
    docShapes,          \* the DirectShapes committed to the document
    alerts,             \* forms.alert calls
    openTransactions,   \* transactions started and neither committed nor rolled back
    calls,              \* the calls of the visualization helpers, with their results
    win                 \* the RebarToolWindow and what its handler did

vars == <<answers, targets, pc, P, idx, loc, all_debug_shapes, printed, exc,
          vis, docShapes, alerts, openTransactions, calls, win>>

\* what a run of the reinforcement script leaves alone: every transaction
\* visualize_edges starts is closed before it returns, and the script opens
\* no window
outside == <<openTransactions, calls, win>>

\* the window before it is shown
NoWindow == [shown |-> FALSE, closed |-> FALSE, navigations |-> <<>>, alerts |-> <<>>]

NoParams ==
    [top_count |-> 0, bottom_count |-> 0, cover_mm |-> RZero,
     long_dia_mm |-> RZero, stirrup_dia_mm |-> RZero,
     stirrup_spacing_mm |-> RZero, preview_only |-> TRUE]

NoLocals ==
    [stage |-> "unset", hostId |-> 0,
     beam_width |-> RZero, beam_depth |-> RZero,
     local_y |-> XYZZero, local_z |-> XYZZero,
     z_offset_top |-> RZero, z_offset_bot |-> RZero, usable_width |-> RZero,
     top_offsets |-> <<>>, bot_offsets |-> <<>>, bar_curves |-> <<>>,
     start_cover |-> RZero, beam_length |-> RZero, usable_length |-> RZero,
     count |-> 0, stirrup_locations |-> <<>>,
     stirrup_half_w |-> RZero, stirrup_half_d |-> RZero, stirrup_curves |-> <<>>]

Init ==
    /\ answers \in [top : TopAnswers, bottom : BottomAnswers, cover : CoverAnswers,
                    long_dia : LongDiaAnswers, stirrup_dia : StirrupDiaAnswers,
                    spacing : SpacingAnswers, preview : {"yes", "no"}]
    /\ targets \in Selections
    /\ pc = "inputs"
    /\ P = NoParams
    /\ idx = 1
    /\ loc = NoLocals
    /\ all_debug_shapes = <<>>
    /\ printed = <<>>
    /\ exc = "none"
    /\ vis = 1
    /\ docShapes = <<>>
    /\ alerts = <<>>
    /\ openTransactions = <<>>
    /\ calls = <<>>
    /\ win = NoWindow

(***************************************************************************)
(* The script, top to bottom.                                              *)
(***************************************************************************)
\* script.py 52-58
ReadInputs ==
    /\ pc = "inputs"
    /\ P' = [top_count |-> safe_int(answers.top),
             bottom_count |-> safe_int(answers.bottom),
             cover_mm |-> safe_float(answers.cover),
             long_dia_mm |-> safe_float(answers.long_dia),
             stirrup_dia_mm |-> safe_float(answers.stirrup_dia),
             stirrup_spacing_mm |-> safe_float(answers.spacing),
             preview_only |-> (answers.preview = "yes")]
    /\ pc' = "resolve"
    /\ UNCHANGED <<answers, targets, idx, loc, all_debug_shapes, printed, exc,
                   vis, docShapes, alerts>>
    /\ UNCHANGED outside

\* script.py 65-67, 93-95: nothing to work on, alert and sys.exit()
NoTargets ==
    /\ pc = "resolve"
    /\ targets = <<>>
    /\ alerts' = Append(alerts, [kind |-> "NoTargets", targets |-> 0, shapes |-> 0])
    /\ pc' = "exited"
    /\ UNCHANGED <<answers, targets, P, idx, loc, all_debug_shapes, printed, exc,
                   vis, docShapes>>
    /\ UNCHANGED outside

\* script.py 61-101: the per-beam loop is entered
TargetsFound ==
    /\ pc = "resolve"
    /\ targets # <<>>
    /\ pc' = "beams"
    /\ UNCHANGED <<answers, targets, P, idx, loc, all_debug_shapes, printed, exc,
                   vis, docShapes, alerts>>
    /\ UNCHANGED outside

\* the loop goes on to the next target, or falls through to line 210
AfterBeam == IF idx = Len(targets) THEN "visualize" ELSE "beams"

\* script.py 103-106
SkipNoLocationCurve ==
    /\ pc = "beams"
    /\ ~targets[idx].hasCurve
    /\ printed' = Append(printed, [text |-> "Skipping host (no LocationCurve): {}",
                                   arg |-> targets[idx].Id])
    /\ idx' = idx + 1
    /\ pc' = AfterBeam
    /\ UNCHANGED <<answers, targets, P, loc, all_debug_shapes, exc, vis, docShapes,
                   alerts>>
    /\ UNCHANGED outside

\* script.py 112-115
SkipNoBBox ==
    /\ pc = "beams"
    /\ targets[idx].hasCurve
    /\ ~targets[idx].hasBBox
    /\ printed' = Append(printed, [text |-> "Skipping host (no bbox): {}",
                                   arg |-> targets[idx].Id])
    /\ idx' = idx + 1
    /\ pc' = AfterBeam
    /\ UNCHANGED <<answers, targets, P, loc, all_debug_shapes, exc, vis, docShapes,
                   alerts>>
    /\ UNCHANGED outside

\* the fields of a stage's result that are names of the script
Names(r) == [k \in DOMAIN r \ {"exc"} |-> r[k]]

\* BeamGroups appending the stirrups group whether or not it has curves
BeamGroups_always_both(hostId, bar_curves, stirrup_curves) ==
    <<[curves |-> bar_curves, name |-> <<"Preview_Longitudinal_Bars_", hostId>>],
      [curves |-> stirrup_curves, name |-> <<"Preview_Stirrups_", hostId>>]>>

\* BeamGroups with bar_curves never emptied between beams: the bars of the
\* beam before are still in the list
BeamGroups_bars_accumulate(hostId, bar_curves, stirrup_curves) ==
    <<[curves |-> loc.bar_curves \o bar_curves,
       name |-> <<"Preview_Longitudinal_Bars_", hostId>>]>>
    \o (IF stirrup_curves # <<>>
        THEN <<[curves |-> stirrup_curves, name |-> <<"Preview_Stirrups_", hostId>>]>>
        ELSE <<>>)

\* script.py 203-205: the groups one beam appends
BeamGroups(hostId, bar_curves, stirrup_curves) ==
    <<[curves |-> bar_curves, name |-> <<"Preview_Longitudinal_Bars_", hostId>>]>>
    \o (IF stirrup_curves # <<>>
        THEN <<[curves |-> stirrup_curves, name |-> <<"Preview_Stirrups_", hostId>>]>>
        ELSE <<>>)

\* script.py 182-205: the iteration after the stirrup curves, C
AfterStirrups(host, A, B, C) ==
    IF C.exc # "none"
    THEN [exc |-> C.exc, groups |-> <<>>,
          names |-> [stage |-> "locations"] @@ Names(C) @@ Names(B) @@ A]
    ELSE [exc |-> "none",
          groups |-> BeamGroups(host.Id, A.bar_curves, C.stirrup_curves),
          names |-> [stage |-> "done"] @@ Names(C) @@ Names(B) @@ A]

\* script.py 164-205: the iteration after the stirrup locations, B
AfterLocations(host, P_, A, B) ==
    IF B.exc # "none"
    THEN [exc |-> B.exc, groups |-> <<>>,
          names |-> [stage |-> "bars"] @@ Names(B) @@ A]
    ELSE AfterStirrups(host, A, B,
             StirrupStage(host, P_, B.stirrup_locations, A.local_y, A.local_z))

\* script.py 107-205: one iteration of the per-beam loop for host.  exc is the
\* exception that ends it ("none" when it runs to its end), names the
\* module-level names it assigned, groups what it appended to
\* all_debug_shapes.
Iteration(host, P_, strict) ==
    IF BarStageRaises(host, P_)
    THEN [exc |-> "ArgumentsInconsistentException", groups |-> <<>>,
          names |-> [stage |-> "axes", hostId |-> host.Id]]
    ELSE AfterLocations(host, P_, BarStage(host, P_), LocationStage(host, P_, strict))

\* the iteration r ran to its end
Completes(r) ==
    /\ r.exc = "none"
    /\ loc' = r.names @@ loc
    /\ all_debug_shapes' = all_debug_shapes \o r.groups

\* the iteration r raised: the exception leaves the loop and ends the script;
\* the names assigned before it keep their new values
Raises(r) ==
    /\ r.exc # "none"
    /\ exc' = r.exc
    /\ loc' = r.names @@ loc

\* script.py 107-205: one iteration that runs to its end
ComputeBeam ==
    /\ pc = "beams"
    /\ targets[idx].hasCurve
    /\ targets[idx].hasBBox
    /\ \E strict \in BOOLEAN : Completes(Iteration(targets[idx], P, strict))
    /\ idx' = idx + 1
    /\ pc' = AfterBeam
    /\ UNCHANGED <<answers, targets, P, printed, exc, vis, docShapes, alerts>>
    /\ UNCHANGED outside

\* script.py 107-201: an iteration that raises
BeamRaises ==
    /\ pc = "beams"
    /\ targets[idx].hasCurve
    /\ targets[idx].hasBBox
    /\ \E strict \in BOOLEAN : Raises(Iteration(targets[idx], P, strict))
    /\ pc' = "raised"
    /\ UNCHANGED <<answers, targets, P, idx, all_debug_shapes, printed, vis,
                   docShapes, alerts>>
    /\ UNCHANGED outside

\* what format() makes of the exception of the host: it names no element
HostError == 0

\* the shapes the host has refused so far
Refusals ==
    Cardinality({m \in 1..Len(printed) : printed[m].text = "Error visualizing edges: {}"})

\* script.py 210-216 with _Starty.visualize_edges (lib/_Starty.py 524-545):
\* one group goes to the document in its own transaction; when the host
\* refuses the shape the helper prints, rolls back and returns
VisualizeGroup ==
    /\ pc = "visualize"
    /\ vis <= Len(all_debug_shapes)
    /\ LET g == all_debug_shapes[vis]
           name == IF P.preview_only THEN g.name ELSE <<"Applied_">> \o g.name
       IN  \E accepted \in (IF Refusals < MaxRefusals THEN BOOLEAN ELSE {TRUE}) :
            IF accepted
            THEN /\ docShapes' = Append(docShapes, [ApplicationId |-> name, shape |-> g.curves])
                 /\ UNCHANGED printed
            ELSE /\ printed' = Append(printed, [text |-> "Error visualizing edges: {}",
                                                arg |-> HostError])
                 /\ UNCHANGED docShapes
    /\ vis' = vis + 1
    /\ UNCHANGED <<answers, targets, pc, P, idx, loc, all_debug_shapes, exc, alerts>>
    /\ UNCHANGED outside

\* script.py 219-224
Summary ==
    /\ pc = "visualize"
    /\ vis > Len(all_debug_shapes)
    /\ alerts' = Append(alerts, [kind |-> "Done", targets |-> Len(targets),
                                 shapes |-> Len(all_debug_shapes)])
    /\ pc' = "done"
    /\ UNCHANGED <<answers, targets, P, idx, loc, all_debug_shapes, printed, exc,
                   vis, docShapes>>
    /\ UNCHANGED outside

Next ==
    \/ ReadInputs
    \/ NoTargets
    \/ TargetsFound
    \/ SkipNoLocationCurve
    \/ SkipNoBBox
    \/ ComputeBeam
    \/ BeamRaises
    \/ VisualizeGroup
    \/ Summary

Spec == Init /\ [][Next]_vars

(***************************************************************************)
(* Properties.                                                             *)
(***************************************************************************)
\* the latest iteration of the per-beam loop assigned the offsets and bars
BarsAssigned == loc.stage \in {"bars", "locations", "done"}

\* the target the latest iteration worked on
LocHost == CHOOSE h \in Hosts : h.Id = loc.hostId

SeqMax(q) == CHOOSE x \in {q[k] : k \in 1..Len(q)} : \A k \in 1..Len(q) : RLe(q[k], x)

SeqMin(q) == CHOOSE x \in {q[k] : k \in 1..Len(q)} : \A k \in 1..Len(q) : RLe(x, q[k])

\* usable width W = beam_width - 2*cover - 2*bar_radius of the latest beam
ClaimW ==
    RSub(RSub(loc.beam_width, RMul(RInt(2), to_internal_mm(P.cover_mm))),
         to_internal_mm(P.long_dia_mm))

\* offsets is what C1 says of compute_offsets(N): empty for 0, <<0>> for 1,
\* and for N >= 2 the N values -W/2 + i*W/(N-1), symmetric about zero, from
\* -W/2 to +W/2, with max - min equal to spread
OffsetsAsClaimed(N, offsets, W, spread) ==
    /\ N = 0 => offsets = <<>>
    /\ N = 1 => offsets = <<RZero>>
    /\ N >= 2 =>
        /\ Len(offsets) = N
        /\ \A i \in 0..(N - 1) :
              offsets[i + 1] =
                  RAdd(RNeg(RDiv(W, RInt(2))), RDiv(RMul(RInt(i), W), RInt(N - 1)))
        /\ \A i \in 1..N : offsets[i] = RNeg(offsets[N + 1 - i])
        /\ offsets[1] = RNeg(RDiv(W, RInt(2)))
        /\ offsets[N] = RDiv(W, RInt(2))
        /\ RSub(SeqMax(offsets), SeqMin(offsets)) = spread

\* C1 as stated: compute_offsets(N) is empty for N = 0, the single offset 0
\* for N = 1, and for N >= 2 the N offsets -W/2 + i*W/(N-1), symmetric about
\* zero, first -W/2, last +W/2, with max - min = W.
C1_AsStated ==
    BarsAssigned =>
        /\ OffsetsAsClaimed(P.top_count, loc.top_offsets, ClaimW, ClaimW)
        /\ OffsetsAsClaimed(P.bottom_count, loc.bot_offsets, ClaimW, ClaimW)

\* C1 amended: as stated, except that max - min is the absolute value of W
\* (the offsets run from -W/2 to +W/2, which is downwards when W < 0).
C1_Offsets ==
    BarsAssigned =>
        /\ OffsetsAsClaimed(P.top_count, loc.top_offsets, ClaimW, RAbs(ClaimW))
        /\ OffsetsAsClaimed(P.bottom_count, loc.bot_offsets, ClaimW, RAbs(ClaimW))

\* three top offsets and one bottom offset were computed for a section
\* narrower than twice the cover plus the bar
C1_Witness ==
    /\ BarsAssigned
    /\ P.top_count = 3
    /\ Len(loc.top_offsets) = 3
    /\ P.bottom_count = 1
    /\ RLt(ClaimW, RZero)

\* the six answers are what ReinforcementParameters allows: integer counts
\* >= 0 and numeric lengths >= 0
AnswersValid ==
    /\ answers.top.kind = "int" /\ answers.top.val[1] >= 0
    /\ answers.bottom.kind = "int" /\ answers.bottom.val[1] >= 0
    /\ \A f \in {"cover", "long_dia", "stirrup_dia", "spacing"} :
          answers[f].kind \in {"int", "dec"} /\ answers[f].val[1] >= 0

\* the latest iteration came as far as the stirrup locations (line 164)
LocationsBegun == loc.stage \in {"bars", "locations", "done"}

\* the latest iteration assigned all its stirrup locations (line 180)
LocationsAssigned == loc.stage \in {"locations", "done"}

\* start and end margin: cover + stirrup_radius + clearance
ClaimMargin ==
    RAdd(RAdd(to_internal_mm(P.cover_mm),
              RDiv(to_internal_mm(P.stirrup_dia_mm), RInt(2))),
         R(1, 20))

\* usable_length = max(0, beam_length - start_margin - end_margin)
ClaimUsable ==
    RMax(RZero, RSub(RSub(BeamLength(LocHost), ClaimMargin), ClaimMargin))

ClaimSpacing == to_internal_mm(P.stirrup_spacing_mm)

\* C2 as stated: for every allowed combination of parameters (lengths >= 0,
\* spacing = 0 included) the number of stirrup positions generated for a beam
\* is floor(usable_length / spacing) + 1 when usable_length > 0, else zero.
C2_AsStated ==
    (AnswersValid /\ LocationsBegun) =>
        IF RLt(RZero, ClaimUsable)
        THEN /\ LocationsAssigned
             /\ ClaimSpacing # RZero
             /\ Len(loc.stirrup_locations) = RFloor(RDiv(ClaimUsable, ClaimSpacing)) + 1
        ELSE /\ LocationsAssigned
             /\ Len(loc.stirrup_locations) = 0

\* C3: stirrup i (0-indexed) lies on the beam centerline at the distance
\* start_margin + min(i*spacing, usable_length) from the beam start, the
\* point of the centerline at the normalized parameter distance / beam_length.
C3_StirrupPositions ==
    LocationsAssigned =>
        LET host == LocHost
            axial == get_line_local_axes(host.start, host.end)[1]
            start_margin == ClaimMargin
            usable_length == ClaimUsable
            spacing == ClaimSpacing
            beam_length == BeamLength(host)
        IN  \A i \in 0..(Len(loc.stirrup_locations) - 1) :
                LET p == loc.stirrup_locations[i + 1]
                    d == RAdd(start_margin, RMin(RMul(RInt(i), spacing), usable_length))
                    rel == VSub(p, host.start)
                IN  /\ DotProduct(rel, axial) = d
                    /\ CrossProduct(rel, axial) = XYZZero
                    /\ p = Evaluate(host.start, host.end, RDiv(d, beam_length))

\* two or more stirrups were placed along the sloped beam
C3_Witness ==
    /\ loc.stage = "done"
    /\ loc.hostId = 102
    /\ Len(loc.stirrup_locations) >= 2
    /\ loc.stirrup_locations[1] # loc.stirrup_locations[2]

\* the lateral offset C1 gives bar i (0-indexed) of N bars across width W
ClaimOffset(N, i, W) ==
    IF N = 1 THEN RZero
    ELSE RAdd(RNeg(RDiv(W, RInt(2))), RDiv(RMul(RInt(i), W), RInt(N - 1)))

\* depth/2 - cover - bar_radius of the latest beam
ClaimVertical ==
    RSub(RSub(RDiv(loc.beam_depth, RInt(2)), to_internal_mm(P.cover_mm)),
         RDiv(to_internal_mm(P.long_dia_mm), RInt(2)))

\* line is the beam's centerline moved by lateral_offset*lateral +
\* vertical_offset*vertical, frame being <<axial, lateral, vertical>>
Translated(line, host, frame, lateral_offset, vertical_offset) ==
    LET v == VAdd(Multiply(frame[2], lateral_offset), Multiply(frame[3], vertical_offset))
    IN  line = <<VAdd(host.start, v), VAdd(host.end, v)>>

\* C4: for non-negative counts a beam gets exactly top_count top and
\* bottom_count bottom centerlines, one per lateral offset; each is the
\* beam's start and end point moved by the same vector
\* lateral_offset*lateral + vertical_offset*vertical, with vertical_offset
\* +(depth/2 - cover - bar_radius) for a top bar and its negation for a
\* bottom bar.
C4_BarCenterlines ==
    BarsAssigned =>
        LET nt == IF P.top_count > 0 THEN P.top_count ELSE 0
            nb == IF P.bottom_count > 0 THEN P.bottom_count ELSE 0
            host == LocHost
            frame == get_line_local_axes(host.start, host.end)
            W == ClaimW
            vertical_offset == ClaimVertical
        IN  /\ (P.top_count >= 0 /\ P.bottom_count >= 0) =>
                   Len(loc.bar_curves) = P.top_count + P.bottom_count
            /\ Len(loc.bar_curves) = nt + nb
            /\ \A k \in 1..nt :
                   Translated(loc.bar_curves[k], host, frame,
                              ClaimOffset(nt, k - 1, W), vertical_offset)
            /\ \A k \in 1..nb :
                   Translated(loc.bar_curves[nt + k], host, frame,
                              ClaimOffset(nb, k - 1, W), RNeg(vertical_offset))

\* three top bars and one bottom bar were laid out for the sloped beam, the
\* outer top bars on opposite sides of the centerline
C4_Witness ==
    /\ BarsAssigned
    /\ loc.hostId = 102
    /\ P.top_count = 3
    /\ P.bottom_count = 1
    /\ Len(loc.bar_curves) = 4
    /\ loc.bar_curves[1] # loc.bar_curves[3]
    /\ loc.bar_curves[2] # loc.bar_curves[4]

(***************************************************************************)
(* Output assembly.                                                        *)
(***************************************************************************)
BarsName(id) == <<"Preview_Longitudinal_Bars_", id>>

StirrupsName(id) == <<"Preview_Stirrups_", id>>

\* the targets whose iteration ran to its end, as positions in targets
Processed ==
    {j \in 1..Len(targets) : j < idx /\ targets[j].hasCurve /\ targets[j].hasBBox}

\* the position in targets of the beam a group is labelled with
TargetOf(g) == CHOOSE j \in 1..Len(targets) : targets[j].Id = g.name[2]

Positions(name) == {k \in 1..Len(all_debug_shapes) : all_debug_shapes[k].name = name}

\* C5: every processed beam has exactly one longitudinal-bars group and at
\* most one stirrups group, the latter exactly when a stirrup loop was
\* generated for it; the labels carry the beam's identity; the bars group
\* comes immediately before the beam's stirrups group; groups of different
\* beams appear in target order, not interleaved.
C5_Groups ==
    /\ \A j \in Processed :
          /\ Cardinality(Positions(BarsName(targets[j].Id))) = 1
          /\ Cardinality(Positions(StirrupsName(targets[j].Id))) <= 1
    /\ \A k \in 1..Len(all_debug_shapes) :
          LET g == all_debug_shapes[k]
          IN  /\ g.name[1] \in {"Preview_Longitudinal_Bars_", "Preview_Stirrups_"}
              /\ \E j \in Processed : targets[j].Id = g.name[2]
              /\ g.name[1] = "Preview_Stirrups_" =>
                    /\ g.curves # <<>>
                    /\ k > 1
                    /\ all_debug_shapes[k - 1].name = BarsName(g.name[2])
              /\ \A m \in 1..(k - 1) :
                    TargetOf(all_debug_shapes[m]) <= TargetOf(g)
    /\ loc.stage = "done" =>
          LET n == Len(all_debug_shapes)
          IN  IF loc.stirrup_curves # <<>>
              THEN /\ n >= 2
                   /\ all_debug_shapes[n] =
                          [curves |-> loc.stirrup_curves, name |-> StirrupsName(loc.hostId)]
                   /\ all_debug_shapes[n - 1] =
                          [curves |-> loc.bar_curves, name |-> BarsName(loc.hostId)]
              ELSE /\ n >= 1
                   /\ all_debug_shapes[n] =
                          [curves |-> loc.bar_curves, name |-> BarsName(loc.hostId)]

\* two beams were processed, the first without stirrups and the second with
C5_Witness ==
    /\ Cardinality(Processed) = 2
    /\ Len(all_debug_shapes) = 3
    /\ all_debug_shapes[1].name[1] = "Preview_Longitudinal_Bars_"
    /\ all_debug_shapes[2].name[1] = "Preview_Longitudinal_Bars_"
    /\ all_debug_shapes[3].name[1] = "Preview_Stirrups_"
    /\ all_debug_shapes[1].name[2] # all_debug_shapes[2].name[2]

\* the four segments from position k on form a closed chain
ClosedLoop(curves, k) ==
    /\ curves[k][2] = curves[k + 1][1]
    /\ curves[k + 1][2] = curves[k + 2][1]
    /\ curves[k + 2][2] = curves[k + 3][1]
    /\ curves[k + 3][2] = curves[k][1]

\* C6: every stirrup loop is four segments, each ending at the very point
\* the next one starts from and the fourth ending at the start of the first;
\* a stirrups group holds four segments per stirrup position.
C6_ClosedLoops ==
    /\ \A g \in {all_debug_shapes[k] : k \in 1..Len(all_debug_shapes)} :
          g.name[1] = "Preview_Stirrups_" =>
              /\ Len(g.curves) % 4 = 0
              /\ \A n \in 0..((Len(g.curves) \div 4) - 1) : ClosedLoop(g.curves, 4 * n + 1)
    /\ loc.stage = "done" =>
          \/ loc.stirrup_curves = <<>>
          \/ Len(loc.stirrup_curves) = 4 * Len(loc.stirrup_locations)

\* a stirrups group of two or more loops, the first a rectangle of four
\* different corners
C6_Witness ==
    \E k \in 1..Len(all_debug_shapes) :
        LET g == all_debug_shapes[k]
        IN  /\ g.name[1] = "Preview_Stirrups_"
            /\ Len(g.curves) >= 8
            /\ Cardinality({g.curves[n][1] : n \in 1..4}) = 4

(***************************************************************************)
(* Error handling.                                                         *)
(***************************************************************************)
\* the iteration of target j is over, by reaching its end or by an exception
IterationOver(j) == j < idx \/ (j = idx /\ pc = "raised")

\* target j has the location curve and bounding box the calculation needs
Computable(j) == targets[j].hasCurve /\ targets[j].hasBBox

\* stirrup half-width width/2 - cover - stirrup_radius, or the half-depth,
\* is at or below the tolerance
InsufficientSection(host) ==
    LET sec == SectionOf(host)
        allowance == RAdd(to_internal_mm(P.cover_mm),
                          RDiv(to_internal_mm(P.stirrup_dia_mm), RInt(2)))
        tolerance == R(1, 1000000)
    IN  \/ RLe(RSub(RDiv(sec.beam_width, RInt(2)), allowance), tolerance)
        \/ RLe(RSub(RDiv(sec.beam_depth, RInt(2)), allowance), tolerance)

GroupsNamed(name) ==
    {k \in 1..Len(all_debug_shapes) : all_debug_shapes[k].name = name}

\* C7 as stated: a beam whose stirrup half-width or half-depth is at or
\* below the tolerance gets no stirrup segment and no stirrups group, and its
\* longitudinal-bars group is still emitted with top_count + bottom_count
\* centerlines.
C7_AsStated ==
    AnswersValid =>
        \A j \in 1..Len(targets) :
            (IterationOver(j) /\ Computable(j) /\ InsufficientSection(targets[j])) =>
                /\ GroupsNamed(StirrupsName(targets[j].Id)) = {}
                /\ \E k \in GroupsNamed(BarsName(targets[j].Id)) :
                      Len(all_debug_shapes[k].curves) = P.top_count + P.bottom_count

\* C8 as stated: when stirrup generation is skipped for a beam because its
\* half-width or half-depth is at or below the tolerance, the run reports a
\* warning for that beam.
C8_AsStated ==
    AnswersValid =>
        \A j \in Processed :
            InsufficientSection(targets[j]) =>
                \E m \in 1..Len(printed) : printed[m].arg = targets[j].Id

\* the span has no length, or its axis is parallel or antiparallel to the
\* global up vector
DegenerateSpan(host) ==
    \/ host.end = host.start
    \/ CrossProduct(BasisZ, VSub(host.end, host.start)) = XYZZero

\* C9 as stated: for a span that has no length or is parallel to the up
\* vector the frame cannot be built; the beam's calculation ends in an error
\* and no bar centerline or stirrup loop is emitted for that beam.
C9_AsStated ==
    AnswersValid =>
        \A j \in 1..Len(targets) :
            (IterationOver(j) /\ Computable(j) /\ DegenerateSpan(targets[j])) =>
                /\ pc = "raised"
                /\ j = idx
                /\ GroupsNamed(BarsName(targets[j].Id)) = {}
                /\ GroupsNamed(StirrupsName(targets[j].Id)) = {}

\* C10 as stated: when one of the six parameters is typed as a negative or
\* non-numeric value the run is rejected before any per-beam computation:
\* no group is emitted and nothing is rendered into the document.
C10_AsStated ==
    ~AnswersValid =>
        /\ all_debug_shapes = <<>>
        /\ docShapes = <<>>

(***************************************************************************)
(* Runs over several targets.                                              *)
(***************************************************************************)
\* the run is over: the summary was shown, the script exited for want of
\* targets, or an exception ended it
RunOver == pc \in {"done", "exited", "raised"}

\* the summary alert of line 219 was shown
SummaryShown == \E m \in 1..Len(alerts) : alerts[m].kind = "Done"

\* the longitudinal-bars group of target j was emitted and has been handed to
\* visualize_edges
HandedToRenderer(j) == \E k \in GroupsNamed(BarsName(targets[j].Id)) : k < vis

\* C11 as stated: in a run over several targets, when the computation of one
\* beam fails the run is not aborted: once it is over, every other target
\* that can be computed has had its groups emitted and handed to the
\* renderer, and the summary was shown.  (Taken for a positive spacing, where
\* the failure is not the division of line 173.)
C11_AsStated ==
    (/\ AnswersValid
     /\ P.stirrup_spacing_mm # RZero
     /\ \E j \in 1..Len(targets) : j # idx /\ Computable(j)
     /\ RunOver
     /\ exc # "none") =>
        /\ SummaryShown
        /\ \A j \in 1..Len(targets) :
              (j # idx /\ Computable(j)) => HandedToRenderer(j)

(***************************************************************************)
(* Runs on members given in millimetres, with the parameters of the        *)
(* worked examples.                                                        *)
(***************************************************************************)
\* n millimetres in the host's internal unit
Mm(n) == to_internal_mm(RInt(n))

\* a beam 4000 mm long along X with a 400 x 600 mm section; a stub whose
\* bounding box is 400 mm in plan and 600 mm high; a column 3000 mm high;
\* and the elements without a LocationCurve and without a bounding box
ExampleHosts ==
    { [Id |-> 201, hasCurve |-> TRUE,
       start |-> XYZZero, end |-> XYZ(Mm(4000), RZero, RZero),
       hasBBox |-> TRUE,
       bbox |-> [Min |-> XYZ(RZero, Mm(-200), Mm(-300)),
                 Max |-> XYZ(Mm(4000), Mm(200), Mm(300))]],
      [Id |-> 202, hasCurve |-> TRUE,
       start |-> XYZZero, end |-> XYZ(Mm(400), RZero, RZero),
       hasBBox |-> TRUE,
       bbox |-> [Min |-> XYZ(RZero, Mm(-200), Mm(-300)),
                 Max |-> XYZ(Mm(400), Mm(200), Mm(300))]],
      [Id |-> 203, hasCurve |-> TRUE,
       start |-> XYZZero, end |-> XYZ(RZero, RZero, Mm(3000)),
       hasBBox |-> TRUE,
       bbox |-> [Min |-> XYZ(Mm(-200), Mm(-200), RZero),
                 Max |-> XYZ(Mm(200), Mm(200), Mm(3000))]] }
    \cup {h \in Hosts : ~h.hasCurve \/ ~h.hasBBox}

ExampleSelections ==
    UNION {{q \in [1..n -> ExampleHosts] : \A i, j \in 1..n : i # j => q[i].Id # q[j].Id}
           : n \in 0..MaxTargets}

\* top 2, bottom 2, cover 30, bar 16, stirrup 8, spacing 150 (mm)
ExampleAnswers ==
    [top : {Raw("int", 2, 1)}, bottom : {Raw("int", 2, 1)},
     cover : {Raw("int", 30, 1)}, long_dia : {Raw("int", 16, 1)},
     stirrup_dia : {Raw("int", 8, 1)}, spacing : {Raw("int", 150, 1)},
     preview : {"yes", "no"}]

ExampleInit ==
    /\ answers \in ExampleAnswers
    /\ targets \in ExampleSelections
    /\ pc = "inputs"
    /\ P = NoParams
    /\ idx = 1
    /\ loc = NoLocals
    /\ all_debug_shapes = <<>>
    /\ printed = <<>>
    /\ exc = "none"
    /\ vis = 1
    /\ docShapes = <<>>
    /\ alerts = <<>>
    /\ openTransactions = <<>>
    /\ calls = <<>>
    /\ win = NoWindow

ExampleSpec == ExampleInit /\ [][Next]_vars

\* the parameters of the stirrup example: cover 30, stirrup 8, spacing 150
StirrupExample ==
    /\ LocationsAssigned
    /\ loc.beam_length = Mm(4000)
    /\ P.cover_mm = RInt(30)
    /\ P.stirrup_dia_mm = RInt(8)
    /\ P.stirrup_spacing_mm = RInt(150)

\* C12 as stated: for a beam 4000 mm long with cover 30 mm, stirrup diameter
\* 8 mm and spacing 150 mm the usable length is 3832 mm and exactly 26
\* stirrup positions are generated.
C12_AsStated ==
    StirrupExample =>
        /\ loc.usable_length = Mm(3832)
        /\ Len(loc.stirrup_locations) = 26

\* the parameters of the offsets example: section 400 x 600, cover 30, bar
\* 16, two top bars
OffsetsExample ==
    /\ BarsAssigned
    /\ loc.beam_width = Mm(400)
    /\ loc.beam_depth = Mm(600)
    /\ P.cover_mm = RInt(30)
    /\ P.long_dia_mm = RInt(16)
    /\ P.top_count = 2

\* C13 as stated: for a section 400 mm wide and 600 mm deep with cover 30 mm,
\* bar diameter 16 mm and two top bars, the two top offsets are -167 mm and
\* +167 mm.
C13_AsStated ==
    OffsetsExample => loc.top_offsets = <<Mm(-167), Mm(167)>>

\* C13 amended: for that section and those parameters the two top offsets
\* are -162 mm and +162 mm, half of the usable width 400 - 60 - 16 = 324 mm.
C13_Offsets ==
    OffsetsExample => loc.top_offsets = <<Mm(-162), Mm(162)>>

\* two top offsets were computed for the 400 x 600 mm section
C13_Witness ==
    /\ OffsetsExample
    /\ loc.hostId = 202
    /\ Len(loc.top_offsets) = 2
    /\ loc.usable_width = Mm(324)

(***************************************************************************)
(* The summary.                                                            *)
(***************************************************************************)
\* C14 as stated: the summary's beam figure is the number of targets whose
\* geometry was computed (targets skipped for want of a location curve or a
\* bounding box are not counted) and its shape figure is the number of
\* shapes the renderer created in the document.
C14_AsStated ==
    AnswersValid =>
        \A m \in 1..Len(alerts) :
            alerts[m].kind = "Done" =>
                /\ alerts[m].targets = Cardinality(Processed)
                /\ alerts[m].shapes = Len(docShapes)

(***************************************************************************)
(* Independence of the beams of one run.                                   *)
(***************************************************************************)
\* the groups labelled with target j, in the order they were emitted
GroupsOf(j) ==
    LET RECURSIVE Pick(_)
        Pick(k) ==
            IF k > Len(all_debug_shapes) THEN <<>>
            ELSE (IF all_debug_shapes[k].name[2] = targets[j].Id
                  THEN <<all_debug_shapes[k]>> ELSE <<>>) \o Pick(k + 1)
    IN  Pick(1)

\* what the loop body emits for host h under the parameters p when it is
\* computed from nothing: from the stages of h alone, none of the names of an
\* earlier iteration
FreshGroups(h, p) ==
    LET A == BarStage(h, p)
        B == LocationStage(h, p, FALSE)
        C == StirrupStage(h, p, B.stirrup_locations, A.local_y, A.local_z)
    IN  <<[curves |-> A.bar_curves, name |-> BarsName(h.Id)]>>
        \o (IF C.stirrup_curves # <<>>
            THEN <<[curves |-> C.stirrup_curves, name |-> StirrupsName(h.Id)]>>
            ELSE <<>>)

MaxCalls == 3

\* the host step that raises in a call, if any
Faults == {"none", "Transaction", "Start", "CreateElement", "SetShape", "Commit"}

\* what one call does: its return value, what it printed, the shapes it
\* committed, and the transactions it left started with the elements in them
Outcome(result, message, committed, left) ==
    [result |-> result,
     printed |-> IF message = "" THEN <<>> ELSE <<[text |-> message, arg |-> HostError]>>,
     committed |-> committed,
     left |-> left]

\* t.Start() raises: the host fails it, or a transaction is open already
StartRaises(fault, busy) == fault = "Start" \/ busy

\* lib/_Starty.py 422-456
visualize_point(point, size, name, fault, busy) ==
    LET half == RDiv(size, RInt(2))
        x_axis == XYZ(half, RZero, RZero)
        y_axis == XYZ(RZero, half, RZero)
        line1 == CreateBound(VSub(point, x_axis), VAdd(point, x_axis))
        line2 == CreateBound(VSub(point, y_axis), VAdd(point, y_axis))
        message == "Error visualizing point: {}"
    IN  IF fault = "Transaction"
        THEN \* t is unbound when the handler reads t.HasStarted()
             Outcome("UnboundLocalError", message, <<>>, <<>>)
        ELSE IF StartRaises(fault, busy)
        THEN \* HasStarted() is false: nothing to roll back
             Outcome("None", message, <<>>, <<>>)
        ELSE IF \/ CreateBoundRaises(line1[1], line1[2])
                \/ CreateBoundRaises(line2[1], line2[2])
                \/ fault \in {"CreateElement", "SetShape", "Commit"}
        THEN \* t.RollBack()
             Outcome("None", message, <<>>, <<>>)
        ELSE Outcome("ds", "", <<[ApplicationId |-> name, shape |-> <<line1, line2>>]>>, <<>>)

\* lib/_Starty.py 459-490: the handler prints and returns, with no RollBack
visualize_vector_directshape(origin, direction, scale_mm, name, fault, busy) ==
    LET length_ft == to_internal_mm(scale_mm)
        end == VAdd(origin, Multiply(Normalize(direction), length_ft))
        line == CreateBound(origin, end)
        message == "Error creating debug vector shape: {}"
    IN  IF \/ CreateBoundRaises(origin, end)
           \/ fault = "Transaction"
           \/ StartRaises(fault, busy)
        THEN \* raised before any transaction was started
             Outcome("None", message, <<>>, <<>>)
        ELSE IF fault = "CreateElement"
        THEN Outcome("None", message, <<>>, <<[name |-> "Visualize Vector", elements |-> <<>>]>>)
        ELSE IF fault \in {"SetShape", "Commit"}
        THEN \* ds was created and named; the transaction holding it stays started
             Outcome("None", message, <<>>,
                     <<[name |-> "Visualize Vector",
                        elements |-> <<[ApplicationId |-> name,
                                        shape |-> IF fault = "Commit" THEN <<line>> ELSE <<>>]>>]>>)
        ELSE Outcome("ds", "", <<[ApplicationId |-> name, shape |-> <<line>>]>>, <<>>)

\* lib/_Starty.py 524-545
visualize_edges(curves, name, fault, busy) ==
    LET message == "Error visualizing edges: {}"
    IN  IF fault = "Transaction"
        THEN Outcome("UnboundLocalError", message, <<>>, <<>>)
        ELSE IF StartRaises(fault, busy)
        THEN Outcome("None", message, <<>>, <<>>)
        ELSE IF fault \in {"CreateElement", "SetShape", "Commit"}
        THEN Outcome("None", message, <<>>, <<>>)
        ELSE Outcome("None", "", <<[ApplicationId |-> name, shape |-> curves]>>, <<>>)

\* one call returned (or raised) with outcome o
Called(helper, o) ==
    /\ Len(calls) < MaxCalls
    /\ calls' = Append(calls, [helper |-> helper, result |-> o.result,
                               created |-> Len(o.committed)])
    /\ printed' = printed \o o.printed
    /\ docShapes' = docShapes \o o.committed
    /\ openTransactions' = openTransactions \o o.left
    /\ UNCHANGED <<answers, targets, pc, P, idx, loc, all_debug_shapes, exc, vis,
                   alerts, win>>

CallVisualizePoint ==
    /\ pc = "helpers"
    /\ \E size \in {R(1, 10), RZero}, fault \in Faults :
          Called("visualize_point",
                 visualize_point(Pt(1, 1, 0), size, "PointMarker", fault,
                                 openTransactions # <<>>))

CallVisualizeVector ==
    /\ pc = "helpers"
    /\ \E direction \in {BasisZ, XYZZero}, fault \in Faults :
          Called("visualize_vector_directshape",
                 visualize_vector_directshape(Pt(1, 1, 0), direction, RInt(500),
                                              "VectorDebug", fault,
                                              openTransactions # <<>>))

CallVisualizeEdges ==
    /\ pc = "helpers"
    /\ \E fault \in Faults :
          Called("visualize_edges",
                 visualize_edges(<<CreateBound(Pt(0, 0, 0), Pt(1, 0, 0))>>, "DebugEdges",
                                 fault, openTransactions # <<>>))

\* the host finalizes the object of a transaction left started: it is rolled
\* back, and the elements created in it are gone
Finalize ==
    /\ pc = "helpers"
    /\ openTransactions # <<>>
    /\ openTransactions' = Tail(openTransactions)
    /\ UNCHANGED <<answers, targets, pc, P, idx, loc, all_debug_shapes, printed, exc,
                   vis, docShapes, alerts, calls, win>>

HelperInit ==
    /\ answers = [top |-> Raw("none", 0, 1), bottom |-> Raw("none", 0, 1),
                  cover |-> Raw("none", 0, 1), long_dia |-> Raw("none", 0, 1),
                  stirrup_dia |-> Raw("none", 0, 1), spacing |-> Raw("none", 0, 1),
                  preview |-> "yes"]
    /\ targets = <<>>
    /\ pc = "helpers"
    /\ P = NoParams
    /\ idx = 1
    /\ loc = NoLocals
    /\ all_debug_shapes = <<>>
    /\ printed = <<>>
    /\ exc = "none"
    /\ vis = 1
    /\ docShapes = <<>>
    /\ alerts = <<>>
    /\ openTransactions = <<>>
    /\ calls = <<>>
    /\ win = NoWindow

HelperNext ==
    \/ CallVisualizePoint
    \/ CallVisualizeVector
    \/ CallVisualizeEdges
    \/ Finalize

HelperSpec == HelperInit /\ [][HelperNext]_vars

\* the elements in the document: the committed shapes and those created in
\* transactions still started (a helper creates one element at most)
ElementsInDocument ==
    Len(docShapes)
    + Cardinality({m \in 1..Len(openTransactions) : openTransactions[m].elements # <<>>})

\* C16 as stated: each of visualize_point, visualize_vector_directshape and
\* visualize_edges returns with its transaction closed, committed when the
\* shape was created and rolled back when a step between Start() and
\* Commit() raised: after any sequence of calls no transaction is left open,
\* and a call that failed leaves no shape in the document.
C16_AsStated ==
    /\ openTransactions = <<>>
    /\ ElementsInDocument = Cardinality({k \in 1..Len(calls) : calls[k].created = 1})

(***************************************************************************)
(* RebarToolWindow of BIMPlus.tab/Test1.panel/Rebar.pushbutton/script.py.  *)
(* A URL is the sequence of the texts it is made of, one after the other.  *)
(***************************************************************************)
\* most navigations of the browser in one dialog
MaxNavigations == 3

Prefix == "pyrevit://create_rebar/"

\* url.startswith("pyrevit://create_rebar/")
startswith(url) == url # <<>> /\ url[1] = Prefix

\* the texts of url from position k up to the next Prefix, or to the end
RECURSIVE UpToPrefix(_, _)
UpToPrefix(url, k) ==
    IF k > Len(url) \/ url[k] = Prefix THEN <<>>
    ELSE <<url[k]>> \o UpToPrefix(url, k + 1)

\* url.split("pyrevit://create_rebar/")[1] of a url that starts with the
\* prefix: what lies between its first and its second occurrence
split_1(url) == UpToPrefix(url, 2)

\* urllib unquote of one text: every %XX becomes its character
unquote_text(text) ==
    CASE text = "%7B%22rebarId%22%3A%227%22%2C%22top%22%3A2%7D"
             -> "{\"rebarId\":\"7\",\"top\":2}"
      [] text = "%7B%22rebarId%22%3A%227%22%7D" -> "{\"rebarId\":\"7\"}"
      [] text = "%5B7%2C2%5D" -> "[7,2]"
      [] text = "%7Btop%3D2" -> "{top=2"
      [] OTHER -> text

unquote(raw_encoded) == [k \in 1..Len(raw_encoded) |-> unquote_text(raw_encoded[k])]

\* json.loads: the value of a JSON document, "ValueError" for any other text
loads(json_data) ==
    CASE json_data = <<"{\"rebarId\":\"7\",\"top\":2}">>
             -> [type |-> "object", keys |-> {"rebarId", "top"}]
      [] json_data = <<"{\"rebarId\":\"7\"}">>
             -> [type |-> "object", keys |-> {"rebarId"}]
      [] json_data = <<"[7,2]">> -> [type |-> "array", keys |-> {}]
      [] OTHER -> [type |-> "ValueError", keys |-> {}]

\* script.py 61-66: data['rebarId'] and data['top'], then the alert; the
\* exception it raises, "none" when the alert was shown
create_rebar_logic(data) ==
    IF data.type = "array" THEN "TypeError"
    ELSE IF "rebarId" \notin data.keys \/ "top" \notin data.keys THEN "KeyError"
    ELSE "none"

\* what one run of the handler does to the event and the window
Handled(url, Cancel, alert, Close) ==
    [url |-> url, Cancel |-> Cancel, alert |-> alert, Close |-> Close]

\* on_navigating closing the window whether or not the payload was accepted
on_navigating_closing_always(url) ==
    IF ~startswith(url) THEN Handled(url, FALSE, "", FALSE)
    ELSE LET user_input == loads(unquote(split_1(url)))
         IN  IF user_input.type = "ValueError"
             THEN Handled(url, TRUE, "Decode Error: ValueError", TRUE)
             ELSE IF create_rebar_logic(user_input) # "none"
             THEN Handled(url, TRUE, "Decode Error: " \o create_rebar_logic(user_input), TRUE)
             ELSE Handled(url, TRUE, "Success!", TRUE)

\* script.py 46-59
on_navigating(url) ==
    IF ~startswith(url) THEN Handled(url, FALSE, "", FALSE)
    ELSE LET raw_encoded == split_1(url)
             json_data == unquote(raw_encoded)
             user_input == loads(json_data)
         IN  IF user_input.type = "ValueError"
             THEN Handled(url, TRUE, "Decode Error: ValueError", FALSE)
             ELSE IF create_rebar_logic(user_input) # "none"
             THEN Handled(url, TRUE, "Decode Error: " \o create_rebar_logic(user_input), FALSE)
             ELSE Handled(url, TRUE, "Success!", TRUE)

\* the addresses the page can send the browser to
Urls ==
    { <<"file:///index.html">>,
      <<"about:blank", Prefix, "%7B%22rebarId%22%3A%227%22%2C%22top%22%3A2%7D">>,
      <<Prefix, "%7B%22rebarId%22%3A%227%22%2C%22top%22%3A2%7D">>,
      <<Prefix, "{\"rebarId\":\"7\",\"top\":2}">>,
      <<Prefix, "%7B%22rebarId%22%3A%227%22%2C%22top%22%3A2%7D", Prefix, "%7Btop%3D2">>,
      <<Prefix, "%7B%22rebarId%22%3A%227%22%7D">>,
      <<Prefix, "%5B7%2C2%5D">>,
      <<Prefix, "%7Btop%3D2">>,
      <<Prefix>> }

\* script.py 72-73: the window is made and shown
ShowDialog ==
    /\ pc = "window"
    /\ ~win.shown
    /\ win' = [win EXCEPT !.shown = TRUE]
    /\ UNCHANGED <<answers, targets, pc, P, idx, loc, all_debug_shapes, printed, exc,
                   vis, docShapes, alerts, openTransactions, calls>>

\* the browser of the open window is about to navigate: script.py 46-59
Navigating ==
    /\ pc = "window"
    /\ win.shown
    /\ ~win.closed
    /\ Len(win.navigations) < MaxNavigations
    /\ \E url \in Urls :
          LET h == on_navigating(url)
          IN  win' = [win EXCEPT
                         !.navigations = Append(@, h),
                         !.alerts = IF h.alert = "" THEN @ ELSE Append(@, h.alert),
                         !.closed = h.Close]
    /\ UNCHANGED <<answers, targets, pc, P, idx, loc, all_debug_shapes, printed, exc,
                   vis, docShapes, alerts, openTransactions, calls>>

WindowInit ==
    /\ answers = [top |-> Raw("none", 0, 1), bottom |-> Raw("none", 0, 1),
                  cover |-> Raw("none", 0, 1), long_dia |-> Raw("none", 0, 1),
                  stirrup_dia |-> Raw("none", 0, 1), spacing |-> Raw("none", 0, 1),
                  preview |-> "yes"]
    /\ targets = <<>>
    /\ pc = "window"
    /\ P = NoParams
    /\ idx = 1
    /\ loc = NoLocals
    /\ all_debug_shapes = <<>>
    /\ printed = <<>>
    /\ exc = "none"
    /\ vis = 1
    /\ docShapes = <<>>
    /\ alerts = <<>>
    /\ openTransactions = <<>>
    /\ calls = <<>>
    /\ win = NoWindow

WindowNext == ShowDialog \/ Navigating

WindowSpec == WindowInit /\ [][WindowNext]_vars

\* the addresses that start with pyrevit://create_rebar/
CreateRebarUrls == {u \in Urls : u[1] = "pyrevit://create_rebar/"}

\* those of them whose payload, URL-decoded, is a JSON object holding both
\* rebarId and top
AcceptableUrls ==
    { <<Prefix, "%7B%22rebarId%22%3A%227%22%2C%22top%22%3A2%7D">>,
      <<Prefix, "{\"rebarId\":\"7\",\"top\":2}">>,
      <<Prefix, "%7B%22rebarId%22%3A%227%22%2C%22top%22%3A2%7D", Prefix, "%7Btop%3D2">> }

\* C18: a navigation to a URL that starts with pyrevit://create_rebar/ is
\* always cancelled; the window is closed only by a navigation whose payload
\* was URL-decoded, parsed as JSON and taken by create_rebar_logic without
\* error (its alert shown); on any decode, parse or logic error an alert is
\* shown and the window stays open; a navigation to any other URL is neither
\* cancelled nor acted upon.
C18_Navigating ==
    LET n == Len(win.navigations)
    IN  /\ \A k \in 1..n :
              LET h == win.navigations[k]
              IN  /\ h.url \in CreateRebarUrls => h.Cancel
                  /\ h.Close => (h.url \in AcceptableUrls /\ h.alert = "Success!")
                  /\ (h.url \in CreateRebarUrls \ AcceptableUrls) =>
                        /\ h.alert \in {"Decode Error: ValueError", "Decode Error: KeyError",
                                        "Decode Error: TypeError"}
                        /\ ~h.Close
                  /\ h.url \notin CreateRebarUrls =>
                        /\ ~h.Cancel
                        /\ h.alert = ""
                        /\ ~h.Close
                  /\ h.Close => k = n
        /\ win.closed <=> (n > 0 /\ win.navigations[n].Close)
        /\ Len(win.alerts) = Cardinality({k \in 1..n : win.navigations[k].alert # ""})

\* the window stayed open through a plain navigation and a rejected payload
\* and was closed by an accepted one
C18_Witness ==
    /\ win.closed
    /\ Len(win.navigations) = 3
    /\ win.navigations[1].url \notin CreateRebarUrls
    /\ win.navigations[2].url \in CreateRebarUrls \ AcceptableUrls
    /\ win.navigations[3].url \in AcceptableUrls
    /\ Len(win.alerts) = 2

====
